---- MODULE Spec2Model ----
(***************************************************************************)
(* Options Strategy Simulator (src/app.py): input validation, the two      *)
(* payoff formulas, the breakeven finder, the summary and the two          *)
(* "Calculate Payoff" handlers.                                            *)
(*                                                                         *)
(* Money is a whole number of units.  Half a cent (0.005) is Tick units,   *)
(* and Tick is the number of grid intervals, 999, the denominator of the   *)
(* grid points: every point of np.linspace(0, 5000, 1000) is a whole       *)
(* number of units although the grid step 5000 / 999 is not a whole number *)
(* of half cents.  The amount 1.0 is Currency = 100 cents, so that         *)
(* strikes, premiums, the tolerance 0.01 and the rounding step 0.01 are    *)
(* all on the code's scale.  A quotient is kept exact, as a whole number   *)
(* of units and a proper fraction of one unit.                             *)
(*                                                                         *)
(* The code computes in binary doubles.  Where the outcome of a comparison *)
(* or of round(x, 2) depends on the last bit of a double (a payoff that is *)
(* 0 in decimal arithmetic, a difference that equals the tolerance, a      *)
(* price half way between two cents) the model takes every outcome.        *)
(***************************************************************************)
EXTENDS Integers, Sequences, FiniteSets

VARIABLES strategy, inputs, lot_size, screen, call, ret

vars == <<strategy, inputs, lot_size, screen, call, ret>>

(* spot_prices = np.linspace(0, 5000, 1000) of both handlers: GridNum       *)
(* points from GridStart to GridStop, both in whole currency                *)
GridStart == 0
GridStop == 5000
GridNum == 1000

(* units in half a cent: the denominator of the grid points *)
Tick == GridNum - 1
(* round(x, 2) rounds to 0.01 *)
Cent == 2 * Tick
(* tolerance: float = 0.01 *)
DefaultTolerance == 2 * Tick
(* round(x, 2): two decimals, 100 cents in 1.0 *)
CentsPerUnit == 100
Currency == CentsPerUnit * Cent
(* the grid ends are handed to linspace in half cents: its points, given as *)
(* numerators over Tick, are then in units                                  *)
HalfCentsPerUnit == 2 * CentsPerUnit

(* values the user types into the widgets, in cents, next to the defaults   *)
(* the widgets start with: two strikes between the grid points 100.1001 and *)
(* 105.1051 and one above them, and a premium that leaves credits of 1.00   *)
(* and 2.00 (the premium widgets take no value below 0.01)                  *)
MaxLot == 2
StrikeCents == {10200, 10300, 11000}
PremiumCents == {300}
StrikeChoices == {k * Cent : k \in StrikeCents}
PremiumChoices == {k * Cent : k \in PremiumCents}
LotChoices == 1..MaxLot

Abs(x) == IF x < 0 THEN -x ELSE x

Maximum(a, b) == IF a >= b THEN a ELSE b

SeqMax(s) == CHOOSE m \in {s[i] : i \in DOMAIN s} : \A i \in DOMAIN s : s[i] <= m
SeqMin(s) == CHOOSE m \in {s[i] : i \in DOMAIN s} : \A i \in DOMAIN s : s[i] >= m

(* np.linspace(start, stop, num): num evenly spaced points, both ends       *)
(* included, point k at start + k * (stop - start) / (num - 1), k from 0;   *)
(* one point is start alone.  The points are given exactly, as numerators   *)
(* over their common denominator LinspaceDen(num).                          *)
LinspaceDen(num) == IF num = 1 THEN 1 ELSE num - 1

linspace(start, stop, num) ==
    [k \in 1..num |-> start * LinspaceDen(num) + (k - 1) * (stop - start)]

-----------------------------------------------------------------------------
(* validate_inputs *)

PremiumError(premiums) == \E i \in DOMAIN premiums : premiums[i] <= 0

(* mutant: equal adjacent strikes are rejected too *)
StrikeErrorStrict(strikes) ==
    /\ Len(strikes) > 1
    /\ ~ \A i \in 1..(Len(strikes) - 1) : strikes[i] < strikes[i + 1]

StrikeError(strikes) ==
    /\ Len(strikes) > 1
    /\ ~ \A i \in 1..(Len(strikes) - 1) : strikes[i] <= strikes[i + 1]

(* the st.error message validate_inputs shows, "none" when it shows none *)
validate_error(premiums, strikes) ==
    IF PremiumError(premiums) THEN "All premiums must be positive values."
    ELSE IF StrikeError(strikes) THEN "Strike prices must be in ascending order."
    ELSE "none"

validate_inputs(premiums, strikes) == validate_error(premiums, strikes) = "none"

-----------------------------------------------------------------------------
(* payoff formulas, one value per spot price *)

(* mutant: the sold call is not floored at 0 below its strike *)
bull_call_spread_unfloored(spot_prices, buy_call_strike, buy_call_premium, sell_call_strike, sell_call_premium, lot) ==
    [i \in DOMAIN spot_prices |->
        LET buy_call_payoff ==
                Maximum(spot_prices[i] - buy_call_strike, 0) - buy_call_premium
            sell_call_payoff ==
                sell_call_premium - (spot_prices[i] - sell_call_strike)
        IN  (buy_call_payoff + sell_call_payoff) * lot]

calculate_bull_call_spread_payoff(spot_prices, buy_call_strike, buy_call_premium, sell_call_strike, sell_call_premium, lot) ==
    [i \in DOMAIN spot_prices |->
        LET buy_call_payoff ==
                Maximum(spot_prices[i] - buy_call_strike, 0) - buy_call_premium
            sell_call_payoff ==
                sell_call_premium - Maximum(spot_prices[i] - sell_call_strike, 0)
        IN  (buy_call_payoff + sell_call_payoff) * lot]

(* mutant: the two put strikes are exchanged *)
iron_condor_put_strikes_swapped(spot_prices, buy_put_strike, buy_put_premium, sell_put_strike, sell_put_premium, sell_call_strike, sell_call_premium, buy_call_strike, buy_call_premium, lot) ==
    [i \in DOMAIN spot_prices |->
        LET buy_put_payoff ==
                Maximum(sell_put_strike - spot_prices[i], 0) - buy_put_premium
            sell_put_payoff ==
                sell_put_premium - Maximum(buy_put_strike - spot_prices[i], 0)
            put_spread_payoff == buy_put_payoff + sell_put_payoff
            buy_call_payoff ==
                Maximum(spot_prices[i] - buy_call_strike, 0) - buy_call_premium
            sell_call_payoff ==
                sell_call_premium - Maximum(spot_prices[i] - sell_call_strike, 0)
            call_spread_payoff == buy_call_payoff + sell_call_payoff
        IN  (put_spread_payoff + call_spread_payoff) * lot]

(* mutant: the bought call pays from the sold call's strike on *)
iron_condor_call_strike_slip(spot_prices, buy_put_strike, buy_put_premium, sell_put_strike, sell_put_premium, sell_call_strike, sell_call_premium, buy_call_strike, buy_call_premium, lot) ==
    [i \in DOMAIN spot_prices |->
        LET buy_put_payoff ==
                Maximum(buy_put_strike - spot_prices[i], 0) - buy_put_premium
            sell_put_payoff ==
                sell_put_premium - Maximum(sell_put_strike - spot_prices[i], 0)
            put_spread_payoff == buy_put_payoff + sell_put_payoff
            buy_call_payoff ==
                Maximum(spot_prices[i] - sell_call_strike, 0) - buy_call_premium
            sell_call_payoff ==
                sell_call_premium - Maximum(spot_prices[i] - sell_call_strike, 0)
            call_spread_payoff == buy_call_payoff + sell_call_payoff
        IN  (put_spread_payoff + call_spread_payoff) * lot]

calculate_iron_condor_payoff(spot_prices, buy_put_strike, buy_put_premium, sell_put_strike, sell_put_premium, sell_call_strike, sell_call_premium, buy_call_strike, buy_call_premium, lot) ==
    [i \in DOMAIN spot_prices |->
        LET buy_put_payoff ==
                Maximum(buy_put_strike - spot_prices[i], 0) - buy_put_premium
            sell_put_payoff ==
                sell_put_premium - Maximum(sell_put_strike - spot_prices[i], 0)
            put_spread_payoff == buy_put_payoff + sell_put_payoff
            buy_call_payoff ==
                Maximum(spot_prices[i] - buy_call_strike, 0) - buy_call_premium
            sell_call_payoff ==
                sell_call_premium - Maximum(spot_prices[i] - sell_call_strike, 0)
            call_spread_payoff == buy_call_payoff + sell_call_payoff
        IN  (put_spread_payoff + call_spread_payoff) * lot]

-----------------------------------------------------------------------------
(* find_breakeven_points *)

(* A double.  v is its value in decimal arithmetic, in units.  given: the    *)
(* double is the one nearest to v, as for a value handed to the function;   *)
(* otherwise it is the result of float arithmetic and may be off v by a few *)
(* last bits, d being the sign of (double - v) where v = 0.                 *)
Double(v, d, given) == [v |-> v, d |-> d, given |-> given]

Given(values) == [i \in DOMAIN values |-> Double(values[i], 0, TRUE)]

(* The doubles the payoff arithmetic of the handlers leaves (np.maximum,    *)
(* +, -, * on the grid): a sample that is 0 in decimal arithmetic comes out *)
(* 0.0 or a few 1e-18 above or below it.  The sign of such a sample counts  *)
(* only next to a sample that is not 0.                                     *)
Computed(values) ==
    LET n == Len(values)
        loose == {i \in 1..n : values[i] = 0
                                /\ \E j \in {i - 1, i + 1} \cap 1..n : values[j] # 0}
    IN  {[i \in 1..n |-> Double(values[i], IF i \in loose THEN e[i] ELSE 0, FALSE)] :
            e \in [loose -> {-1, 0, 1}]}

(* the sign of a double *)
Sgn(x) == IF x.v > 0 THEN 1 ELSE IF x.v < 0 THEN -1 ELSE x.d

(* the adjacent pairs (i, i+1) the loop visits: range(len(payoff) - 1) *)
Segments(payoff) == 1..(Len(payoff) - 1)

(* mutant: the second test reads >= twice *)
SignChangeTypo(payoff, i) ==
    \/ Sgn(payoff[i]) <= 0 /\ Sgn(payoff[i + 1]) >= 0
    \/ Sgn(payoff[i]) >= 0 /\ Sgn(payoff[i + 1]) >= 0

SignChange(payoff, i) ==
    \/ Sgn(payoff[i]) <= 0 /\ Sgn(payoff[i + 1]) >= 0
    \/ Sgn(payoff[i]) >= 0 /\ Sgn(payoff[i + 1]) <= 0

(* payoff[i+1] - payoff[i] is the double nearest to the decimal difference:  *)
(* both values are given and one is 0, or they are equal, or opposite.       *)
ExactDifference(payoff, i) ==
    /\ payoff[i].given /\ payoff[i + 1].given
    /\ \/ payoff[i].v = 0
       \/ payoff[i + 1].v = 0
       \/ payoff[i].v = payoff[i + 1].v
       \/ payoff[i].v = -payoff[i + 1].v

(* mutant: a slope equal to the tolerance passes *)
SlopeGuardInclusive(payoff, i, tolerance) == {Abs(payoff[i + 1].v - payoff[i].v) >= tolerance}

(* mutant: the comparison is the wrong way round *)
SlopeGuardInverted(payoff, i, tolerance) == {Abs(payoff[i + 1].v - payoff[i].v) < tolerance}

(* The outcomes of abs(payoff[i+1] - payoff[i]) > tolerance.  A difference  *)
(* that equals the tolerance in decimal arithmetic is a double just above   *)
(* or just below the tolerance's double unless the subtraction is exact.    *)
SlopeGuard(payoff, i, tolerance) ==
    LET jump == Abs(payoff[i + 1].v - payoff[i].v)
    IN  IF jump # tolerance THEN {jump > tolerance}
        ELSE IF ExactDifference(payoff, i) THEN {FALSE}
        ELSE BOOLEAN

(* the pairs at which the loop body can reach the division *)
Interpolated(payoff, tolerance) ==
    {i \in Segments(payoff) : SignChange(payoff, i) /\ TRUE \in SlopeGuard(payoff, i, tolerance)}

(* ratio = RatioNum / RatioDen *)
(* mutant: the ratio is taken from the far end of the pair *)
RatioNumFarEnd(payoff, i) == Abs(payoff[i + 1].v)

RatioNum(payoff, i) == Abs(payoff[i].v)
RatioDen(payoff, i) == Abs(payoff[i + 1].v - payoff[i].v)

(* a price of v units exactly *)
Exactly(v) == [whole |-> v, num |-> 0, den |-> 1]

(* a * h = q * b + r with 0 <= r < b, for a, h >= 0 and b > 0, by doubling, *)
(* no intermediate value exceeding 2 * b + a                                *)
RECURSIVE MulDiv(_, _, _)
MulDiv(a, h, b) ==
    IF h = 0 THEN [q |-> 0, r |-> 0]
    ELSE LET t == MulDiv(a, h \div 2, b)
             n == 2 * t.r + (h % 2) * a
         IN  [q |-> 2 * t.q + n \div b, r |-> n % b]

(* mutant: the interpolation starts from the far end of the pair *)
breakeven_price_from_far_end(payoff, spot_prices, i) ==
    LET t == MulDiv(RatioNum(payoff, i), spot_prices[i + 1] - spot_prices[i], RatioDen(payoff, i))
    IN  [whole |-> spot_prices[i + 1] + t.q, num |-> t.r, den |-> RatioDen(payoff, i)]

(* breakeven_price = spot_prices[i] + ratio * (spot_prices[i + 1] -          *)
(* spot_prices[i]), in units: whole + num / den with 0 <= num < den         *)
breakeven_price(payoff, spot_prices, i) ==
    LET t == MulDiv(RatioNum(payoff, i), spot_prices[i + 1] - spot_prices[i], RatioDen(payoff, i))
    IN  [whole |-> spot_prices[i] + t.q, num |-> t.r, den |-> RatioDen(payoff, i)]

(* A double of a price the model can hold (below 2^31 units) carries 53     *)
(* bits, so its last bit is at most 2^-22 of a unit: a fraction of a unit   *)
(* below 1 / FloatGrain is within the rounding error of the float           *)
(* arithmetic that computed the price.                                      *)
FloatGrain == 1048576

(* The outcomes of round(x, 2), in units, for the price x = whole + num /   *)
(* den: the nearest cent; for a price half way between two cents, or off    *)
(* the half by less than the float arithmetic resolves, either of them, the *)
(* double of such a price lying a last bit above or below the half          *)
(* (Python's round(0.015, 2) is 0.01 and round(0.025, 2) is 0.03).          *)
round2(x) ==
    LET q == x.whole \div Cent
        r == x.whole % Cent
        above == x.num > 0 /\ x.den \div x.num >= FloatGrain
        below == x.num > 0 /\ x.den \div (x.den - x.num) >= FloatGrain
        half == \/ 2 * r = Cent /\ (x.num = 0 \/ above)
                \/ 2 * (r + 1) = Cent /\ below
    IN  IF half THEN {Cent * q, Cent * (q + 1)}
        ELSE IF 2 * r < Cent THEN {Cent * q}
        ELSE {Cent * (q + 1)}

(* the elements of the index set S in ascending order, as the loop meets them *)
Sorted(S) ==
    [k \in 1..Cardinality(S) |-> CHOOSE i \in S : Cardinality({j \in S : j < i}) = k - 1]

(* mutant: the list is returned as appended, without set() *)
ListKeepingDuplicates(appended) == {appended}

(* The outcomes of list(set(appended)): every value of the list once, in    *)
(* the order the set's hashing leaves them, which is any order.             *)
ListOfSet(appended) ==
    LET S == {appended[k] : k \in DOMAIN appended}
    IN  {l \in [1..Cardinality(S) -> S] : \A v \in S : \E k \in DOMAIN l : l[k] = v}

(* The outcomes of one call.  points: the returned list, the numbers in it. *)
(* A pair that reaches the division with denominator 0 raises               *)
(* ZeroDivisionError on Python floats (raised) and appends a nan on numpy   *)
(* doubles (nans counts them).                                              *)
find_breakeven_points(payoff, spot_prices, tolerance) ==
    LET tested == {i \in Segments(payoff) : SignChange(payoff, i)}
        sure == {i \in tested : SlopeGuard(payoff, i, tolerance) = {TRUE}}
        open == {i \in tested : SlopeGuard(payoff, i, tolerance) = BOOLEAN}
        rounded(i) == round2(breakeven_price(payoff, spot_prices, i))
        finished(hit) ==
            LET div == {i \in hit : RatioDen(payoff, i) # 0}
                order == Sorted(div)
                values == UNION {rounded(i) : i \in div}
                appended(f) == [k \in DOMAIN order |-> f[order[k]]]
            IN  UNION {{[raised |-> FALSE, points |-> l, nans |-> Cardinality(hit \ div)] :
                            l \in ListOfSet(appended(f))} :
                        f \in {g \in [div -> values] : \A i \in div : g[i] \in rounded(i)}}
        failed(hit) ==
            IF \E i \in hit : RatioDen(payoff, i) = 0
            THEN {[raised |-> TRUE, points |-> <<>>, nans |-> 0]}
            ELSE {}
    IN  UNION {finished(sure \cup m) \cup failed(sure \cup m) : m \in SUBSET open}

-----------------------------------------------------------------------------
(* the page: strategy selection, the widgets and the two calculate handlers *)

Strategies == {"Bull Call Spread", "Iron Condor"}

(* button: st.button returned True in the run that drew the page *)
Blank ==
    [button |-> FALSE, error |-> "none", computed |-> FALSE, payoff |-> <<>>,
     breakeven_points |-> <<>>, max_profit |-> 0, max_loss |-> 0]

(* display_summary, with the chart's payoff vector *)
Shown(payoff, breakeven_points) ==
    [button |-> TRUE, error |-> "none", computed |-> TRUE, payoff |-> payoff,
     breakeven_points |-> breakeven_points,
     max_profit |-> SeqMax(payoff), max_loss |-> SeqMin(payoff)]

Rejected(msg) == [Blank EXCEPT !.button = TRUE, !.error = msg]

BullPremiums(w) == <<w.buy_call_premium, w.sell_call_premium>>
BullStrikes(w) == <<w.buy_call_strike, w.sell_call_strike>>

CondorPremiums(w) ==
    <<w.buy_put_premium, w.sell_put_premium, w.sell_call_premium, w.buy_call_premium>>
CondorStrikes(w) ==
    <<w.buy_put_strike, w.sell_put_strike, w.sell_call_strike, w.buy_call_strike>>

(* the screens find_breakeven_points can leave for a computed payoff *)
Results(payoff, spot_prices) ==
    {Shown(payoff, r.points) :
        r \in UNION {find_breakeven_points(q, spot_prices, DefaultTolerance) :
                        q \in Computed(payoff)}}

(* mutant: the handler computes without asking validate_inputs *)
BullCallUngated(w, lot) ==
    LET spot_prices == linspace(GridStart * HalfCentsPerUnit, GridStop * HalfCentsPerUnit, GridNum)
        payoff == calculate_bull_call_spread_payoff(
                      spot_prices, w.buy_call_strike, w.buy_call_premium,
                      w.sell_call_strike, w.sell_call_premium, lot)
    IN  Results(payoff, spot_prices)

(* what one click on "Calculate Payoff" can put on the Bull Call Spread page *)
BullCallCalculate(w, lot) ==
    IF validate_inputs(BullPremiums(w), BullStrikes(w))
    THEN LET spot_prices == linspace(GridStart * HalfCentsPerUnit, GridStop * HalfCentsPerUnit, GridNum)
             payoff == calculate_bull_call_spread_payoff(
                           spot_prices, w.buy_call_strike, w.buy_call_premium,
                           w.sell_call_strike, w.sell_call_premium, lot)
         IN  Results(payoff, spot_prices)
    ELSE {Rejected(validate_error(BullPremiums(w), BullStrikes(w)))}

(* what one click on "Calculate Payoff" can put on the Iron Condor page *)
IronCondorCalculate(w, lot) ==
    IF validate_inputs(CondorPremiums(w), CondorStrikes(w))
    THEN LET spot_prices == linspace(GridStart * HalfCentsPerUnit, GridStop * HalfCentsPerUnit, GridNum)
             payoff == calculate_iron_condor_payoff(
                           spot_prices, w.buy_put_strike, w.buy_put_premium,
                           w.sell_put_strike, w.sell_put_premium,
                           w.sell_call_strike, w.sell_call_premium,
                           w.buy_call_strike, w.buy_call_premium, lot)
         IN  Results(payoff, spot_prices)
    ELSE {Rejected(validate_error(CondorPremiums(w), CondorStrikes(w)))}

(* the widgets of each page at their value= defaults: strikes 100.0 and     *)
(* 110.0, premiums 5.0 and 2.0 on the first page, strikes 90.0, 100.0,      *)
(* 110.0, 120.0 and premiums 2.0, 5.0, 5.0, 2.0 on the second               *)
BullDefaults ==
    [buy_call_strike |-> 100 * Currency, buy_call_premium |-> 5 * Currency,
     sell_call_strike |-> 110 * Currency, sell_call_premium |-> 2 * Currency]

CondorDefaults ==
    [buy_put_strike |-> 90 * Currency, buy_put_premium |-> 2 * Currency,
     sell_put_strike |-> 100 * Currency, sell_put_premium |-> 5 * Currency,
     sell_call_strike |-> 110 * Currency, sell_call_premium |-> 5 * Currency,
     buy_call_strike |-> 120 * Currency, buy_call_premium |-> 2 * Currency]

DefaultsOf(s) == IF s = "Bull Call Spread" THEN BullDefaults ELSE CondorDefaults

StrikeFields == {"buy_call_strike", "sell_call_strike", "buy_put_strike", "sell_put_strike"}
PremiumFields ==
    {"buy_call_premium", "sell_call_premium", "buy_put_premium", "sell_put_premium"}

NoCall == [fn |-> "none"]
NoRet == [fn |-> "none"]

Init ==
    /\ strategy = "Bull Call Spread"
    /\ inputs = BullDefaults
    /\ lot_size = 1
    /\ screen = Blank
    /\ call = NoCall
    /\ ret = NoRet

(* st.sidebar.selectbox: the other page is drawn.  "Sell Call Strike Price"  *)
(* and "Lot Size" are declared with the same arguments and no key on both   *)
(* pages, so they are the same widgets and keep the user's value; the other *)
(* widgets are new and show their defaults.                                 *)
SelectStrategy ==
    /\ \E s \in Strategies \ {strategy} :
        /\ strategy' = s
        /\ inputs' = [DefaultsOf(s) EXCEPT !.sell_call_strike = inputs.sell_call_strike]
    /\ screen' = Blank
    /\ UNCHANGED <<lot_size, call, ret>>

(* a strike number_input of the current page is changed; the rerun shows no result *)
SetStrike ==
    /\ \E f \in StrikeFields \cap DOMAIN inputs, v \in StrikeChoices :
        inputs' = [inputs EXCEPT ![f] = v]
    /\ screen' = Blank
    /\ UNCHANGED <<strategy, lot_size, call, ret>>

SetPremium ==
    /\ \E f \in PremiumFields \cap DOMAIN inputs, v \in PremiumChoices :
        inputs' = [inputs EXCEPT ![f] = v]
    /\ screen' = Blank
    /\ UNCHANGED <<strategy, lot_size, call, ret>>

SetLotSize ==
    /\ \E v \in LotChoices : lot_size' = v
    /\ screen' = Blank
    /\ UNCHANGED <<strategy, inputs, call, ret>>

ClickBullCall ==
    /\ strategy = "Bull Call Spread"
    /\ screen' \in BullCallCalculate(inputs, lot_size)
    /\ UNCHANGED <<strategy, inputs, lot_size, call, ret>>

ClickIronCondor ==
    /\ strategy = "Iron Condor"
    /\ screen' \in IronCondorCalculate(inputs, lot_size)
    /\ UNCHANGED <<strategy, inputs, lot_size, call, ret>>

Next ==
    \/ SelectStrategy
    \/ SetStrike
    \/ SetPremium
    \/ SetLotSize
    \/ ClickBullCall
    \/ ClickIronCondor

Spec == Init /\ [][Next]_vars

-----------------------------------------------------------------------------
(* the functions called on their own: the inputs are drawn in the initial   *)
(* state, one action applies the function                                   *)

SeqsUpTo(S, n) == UNION {[1..k -> S] : k \in 0..n}

Ascending(s) == \A i \in 1..(Len(s) - 1) : s[i] < s[i + 1]

AppIdle ==
    /\ strategy = "Bull Call Spread"
    /\ inputs = BullDefaults
    /\ lot_size = 1
    /\ screen = Blank

(* validate_inputs(premiums, strikes) *)
MaxLegs == 4
MaxStrikeInput == 2
PremiumInputs == {-1, 0, 1}
StrikeInputs == 0..MaxStrikeInput

ValidateCalls ==
    [fn : {"validate_inputs"},
     premiums : SeqsUpTo(PremiumInputs, MaxLegs),
     strikes : SeqsUpTo(StrikeInputs, MaxLegs)]

InitValidate == AppIdle /\ call \in ValidateCalls /\ ret = NoRet

CallValidate ==
    /\ call.fn = "validate_inputs"
    /\ ret = NoRet
    /\ ret' = [fn |-> "validate_inputs",
               value |-> validate_inputs(call.premiums, call.strikes),
               error |-> validate_error(call.premiums, call.strikes)]
    /\ UNCHANGED <<strategy, inputs, lot_size, screen, call>>

NextValidate == CallValidate

SpecValidate == InitValidate /\ [][NextValidate]_vars

(* the payoff functions over every spot price 0 .. MaxSpot *)
MaxStrike == 4
MaxPremium == 2
MaxSpot == MaxStrike + 2
Strikes == 0..MaxStrike
Premiums == 0..MaxPremium
AllSpots == [k \in 1..(MaxSpot + 1) |-> k - 1]

BullCalls ==
    [fn : {"calculate_bull_call_spread_payoff"},
     buy_call_strike : Strikes, buy_call_premium : Premiums,
     sell_call_strike : Strikes, sell_call_premium : Premiums,
     lot_size : LotChoices]

CondorCalls ==
    [fn : {"calculate_iron_condor_payoff"},
     buy_put_strike : Strikes, buy_put_premium : Premiums,
     sell_put_strike : Strikes, sell_put_premium : Premiums,
     sell_call_strike : Strikes, sell_call_premium : Premiums,
     buy_call_strike : Strikes, buy_call_premium : Premiums,
     lot_size : LotChoices]

InitPayoff == AppIdle /\ call \in BullCalls \cup CondorCalls /\ ret = NoRet

CallBullCallSpread ==
    /\ call.fn = "calculate_bull_call_spread_payoff"
    /\ ret = NoRet
    /\ ret' = [fn |-> call.fn,
               value |-> calculate_bull_call_spread_payoff(
                             AllSpots, call.buy_call_strike, call.buy_call_premium,
                             call.sell_call_strike, call.sell_call_premium,
                             call.lot_size)]
    /\ UNCHANGED <<strategy, inputs, lot_size, screen, call>>

CallIronCondor ==
    /\ call.fn = "calculate_iron_condor_payoff"
    /\ ret = NoRet
    /\ ret' = [fn |-> call.fn,
               value |-> calculate_iron_condor_payoff(
                             AllSpots, call.buy_put_strike, call.buy_put_premium,
                             call.sell_put_strike, call.sell_put_premium,
                             call.sell_call_strike, call.sell_call_premium,
                             call.buy_call_strike, call.buy_call_premium,
                             call.lot_size)]
    /\ UNCHANGED <<strategy, inputs, lot_size, screen, call>>

NextPayoff == CallBullCallSpread \/ CallIronCondor

SpecPayoff == InitPayoff /\ [][NextPayoff]_vars

(* find_breakeven_points(payoff, spot_prices, tolerance): payoffs and spot  *)
(* prices in whole half cents                                               *)
MaxLen == 3
MaxAbsPayoff == 3
MaxGridPrice == 4
PayoffValues == {k * Tick : k \in (-MaxAbsPayoff)..MaxAbsPayoff}
SpotValues == {k * Tick : k \in 0..MaxGridPrice}
Tolerances == {-Tick, 0, DefaultTolerance}

BreakevenCalls ==
    UNION {[fn : {"find_breakeven_points"},
            payoff : [1..n -> PayoffValues],
            spot_prices : {s \in [1..n -> SpotValues] : Ascending(s)},
            tolerance : Tolerances] : n \in 0..MaxLen}

InitBreakeven == AppIdle /\ call \in BreakevenCalls /\ ret = NoRet

CallFindBreakeven ==
    /\ call.fn = "find_breakeven_points"
    /\ ret = NoRet
    /\ \E r \in find_breakeven_points(Given(call.payoff), call.spot_prices, call.tolerance) :
          ret' = [fn |-> call.fn, value |-> r]
    /\ UNCHANGED <<strategy, inputs, lot_size, screen, call>>

NextBreakeven == CallFindBreakeven

SpecBreakeven == InitBreakeven /\ [][NextBreakeven]_vars

-----------------------------------------------------------------------------
(* C1, C8: the page *)

CurrentValid ==
    IF strategy = "Bull Call Spread"
    THEN validate_inputs(BullPremiums(inputs), BullStrikes(inputs))
    ELSE validate_inputs(CondorPremiums(inputs), CondorStrikes(inputs))

(* C1: on either page a payoff vector, breakeven set and summary are on the   *)
(* screen only after a click whose premiums and strikes validate_inputs      *)
(* accepted; a click it rejected shows an error and no result.               *)
C1_ComputeOnlyWhenValid ==
    /\ screen.computed => screen.button /\ CurrentValid /\ screen.error = "none"
    /\ screen.button /\ ~CurrentValid =>
          /\ screen.error # "none"
          /\ ~screen.computed
          /\ screen.payoff = <<>>
          /\ screen.breakeven_points = <<>>
    /\ screen.button /\ CurrentValid => screen.computed /\ Len(screen.payoff) = GridNum

C1_Witness ==
    /\ strategy = "Iron Condor"
    /\ screen.button
    /\ screen.error = "Strike prices must be in ascending order."
    /\ ~screen.computed

-----------------------------------------------------------------------------
(* C2: validate_inputs *)

Returned(fn) == ret.fn = fn

(* C2: validate_inputs returns False exactly when some premium is <= 0 or    *)
(* some adjacent pair of strikes is strictly descending; equal neighbours    *)
(* and strike sequences of length 0 or 1 are accepted, and a premium <= 0    *)
(* rejects whatever the strikes are.                                         *)
C2_ValidateExact ==
    Returned("validate_inputs") =>
        LET badPremium == \E i \in 1..Len(call.premiums) : call.premiums[i] <= 0
            descending ==
                \E i \in 1..(Len(call.strikes) - 1) : call.strikes[i] > call.strikes[i + 1]
        IN  /\ ret.value = ~(badPremium \/ descending)
            /\ badPremium => ret.value = FALSE
            /\ Len(call.strikes) <= 1 /\ ~badPremium => ret.value = TRUE

C2_Witness ==
    /\ Returned("validate_inputs")
    /\ call.strikes = <<1, 0, 2>>
    /\ call.premiums = <<1, 1, 1>>
    /\ ret.value = FALSE

-----------------------------------------------------------------------------
(* C3: Bull Call Spread bounds *)

NetDebit == call.buy_call_premium - call.sell_call_premium

BullUpper == (call.sell_call_strike - call.buy_call_strike - NetDebit) * call.lot_size
BullLower == (-NetDebit) * call.lot_size

BullWithinBounds ==
    \A i \in DOMAIN ret.value : ret.value[i] <= BullUpper /\ ret.value[i] >= BullLower

(* C3 as claimed: with netDebit > 0 the payoff at every spot price is at most *)
(* (sellCallStrike - buyCallStrike - netDebit) * lotSize and at least         *)
(* -netDebit * lotSize, for all inputs.                                       *)
C3_BoundsAllInputs ==
    Returned("calculate_bull_call_spread_payoff") /\ NetDebit > 0 => BullWithinBounds

(* C3 amended: the two bounds hold when moreover buyCallStrike <=            *)
(* sellCallStrike, the order validate_inputs enforces before the handler     *)
(* computes.                                                                  *)
C3_BoundsOrderedStrikes ==
    /\ Returned("calculate_bull_call_spread_payoff")
    /\ NetDebit > 0
    /\ call.buy_call_strike <= call.sell_call_strike
    => BullWithinBounds

C3_Witness ==
    /\ Returned("calculate_bull_call_spread_payoff")
    /\ NetDebit > 0
    /\ call.buy_call_strike < call.sell_call_strike
    /\ call.lot_size > 1
    /\ \E i \in DOMAIN ret.value : ret.value[i] = BullUpper
    /\ \E i \in DOMAIN ret.value : ret.value[i] = BullLower
    /\ \E i \in DOMAIN ret.value : ret.value[i] > BullLower /\ ret.value[i] < BullUpper

-----------------------------------------------------------------------------
(* C4, C5: Iron Condor flat top and wings *)

CondorValid ==
    validate_inputs(
        <<call.buy_put_premium, call.sell_put_premium,
          call.sell_call_premium, call.buy_call_premium>>,
        <<call.buy_put_strike, call.sell_put_strike,
          call.sell_call_strike, call.buy_call_strike>>)

NetCredit ==
    call.sell_put_premium - call.buy_put_premium
        + call.sell_call_premium - call.buy_call_premium

(* C4: for validated Iron Condor parameters the payoff is                    *)
(* netCredit * lotSize at every spot price strictly between sellPutStrike    *)
(* and sellCallStrike, and no spot price pays more.                          *)
C4_FlatTopIsMaximum ==
    Returned("calculate_iron_condor_payoff") /\ CondorValid =>
        /\ \A i \in DOMAIN ret.value :
              AllSpots[i] > call.sell_put_strike /\ AllSpots[i] < call.sell_call_strike
                  => ret.value[i] = NetCredit * call.lot_size
        /\ \A i \in DOMAIN ret.value : ret.value[i] <= NetCredit * call.lot_size

C4_Witness ==
    /\ Returned("calculate_iron_condor_payoff")
    /\ CondorValid
    /\ call.buy_put_strike < call.sell_put_strike
    /\ call.sell_put_strike + 1 < call.sell_call_strike
    /\ call.lot_size > 1
    /\ \E i \in DOMAIN ret.value :
          /\ AllSpots[i] > call.sell_put_strike
          /\ AllSpots[i] < call.sell_call_strike
          /\ ret.value[i] = NetCredit * call.lot_size
    /\ \E i \in DOMAIN ret.value : ret.value[i] < NetCredit * call.lot_size

PutWing == (call.buy_put_strike - call.sell_put_strike + NetCredit) * call.lot_size
CallWing == (call.sell_call_strike - call.buy_call_strike + NetCredit) * call.lot_size

WingsConstant ==
    /\ \A i \in DOMAIN ret.value :
          AllSpots[i] <= call.buy_put_strike => ret.value[i] = PutWing
    /\ \A i \in DOMAIN ret.value :
          AllSpots[i] >= call.buy_call_strike => ret.value[i] = CallWing

(* C5 as claimed: for validated parameters the payoff is constant on each    *)
(* wing, the put wing's value equals the call wing's, and no spot price pays *)
(* less than that common value.                                              *)
C5_WingsEqual ==
    Returned("calculate_iron_condor_payoff") /\ CondorValid =>
        /\ WingsConstant
        /\ PutWing = CallWing
        /\ \A i \in DOMAIN ret.value : ret.value[i] >= PutWing

(* C5 amended: the payoff is constant on each wing, at                        *)
(* (buyPutStrike - sellPutStrike + netCredit) * lotSize for S <= buyPutStrike *)
(* and (sellCallStrike - buyCallStrike + netCredit) * lotSize for             *)
(* S >= buyCallStrike; the two values are equal exactly when the two spreads  *)
(* are equally wide, and no spot price pays less than the lower of the two.   *)
C5_WingsPerSpread ==
    Returned("calculate_iron_condor_payoff") /\ CondorValid =>
        /\ WingsConstant
        /\ (PutWing = CallWing) <=>
              (call.sell_put_strike - call.buy_put_strike
                  = call.buy_call_strike - call.sell_call_strike)
        /\ \A i \in DOMAIN ret.value :
              ret.value[i] >= (IF PutWing <= CallWing THEN PutWing ELSE CallWing)

C5_Witness ==
    /\ Returned("calculate_iron_condor_payoff")
    /\ CondorValid
    /\ call.buy_put_strike >= 1
    /\ call.sell_put_strike - call.buy_put_strike = 1
    /\ call.buy_call_strike - call.sell_call_strike = 2
    /\ PutWing > CallWing
    /\ ret.value[1] = PutWing
    /\ ret.value[Len(ret.value)] = CallWing

-----------------------------------------------------------------------------
(* C6, C7, C9, C10: find_breakeven_points *)

FB == "find_breakeven_points"

AllPositive == \A i \in DOMAIN call.payoff : call.payoff[i] > 0
AllNegative == \A i \in DOMAIN call.payoff : call.payoff[i] < 0
AllZero == \A i \in DOMAIN call.payoff : call.payoff[i] = 0
AllNonNegative == \A i \in DOMAIN call.payoff : call.payoff[i] >= 0
AllNonPositive == \A i \in DOMAIN call.payoff : call.payoff[i] <= 0

(* the values in the returned list *)
ReturnedPoints == {ret.value.points[k] : k \in DOMAIN ret.value.points}

(* the grid points at which the payoff is exactly zero *)
ZeroPoints == {j \in DOMAIN call.payoff : call.payoff[j] = 0}

(* C6 as claimed: with the default tolerance the result is empty for every   *)
(* payoff vector that is >= 0 everywhere or <= 0 everywhere, also when it    *)
(* touches zero at a grid point.                                             *)
C6_EmptyWhenOneSigned ==
    /\ Returned(FB)
    /\ call.tolerance = DefaultTolerance
    /\ AllNonNegative \/ AllNonPositive
    => ret.value.points = <<>>

(* C6 amended: for any tolerance >= 0 the result is empty for every payoff   *)
(* vector that is > 0 everywhere, < 0 everywhere or 0 everywhere; for a      *)
(* vector that is >= 0 everywhere or <= 0 everywhere every reported value is *)
(* a grid point (rounded) at which the payoff is exactly zero, and such a    *)
(* point is reported when the payoff at a neighbour exceeds the tolerance.   *)
C6_EmptyWhenStrictlySigned ==
    Returned(FB) /\ call.tolerance >= 0 =>
        /\ ~ret.value.raised
        /\ AllPositive \/ AllNegative \/ AllZero => ret.value.points = <<>>
        /\ AllNonNegative \/ AllNonPositive =>
              /\ ReturnedPoints \subseteq
                    UNION {round2(Exactly(call.spot_prices[j])) : j \in ZeroPoints}
              /\ \A j \in ZeroPoints :
                    \A k \in {j - 1, j + 1} \cap DOMAIN call.payoff :
                        Abs(call.payoff[k]) > call.tolerance =>
                            ReturnedPoints \cap round2(Exactly(call.spot_prices[j])) # {}

C6_Witness ==
    /\ Returned(FB)
    /\ call.tolerance = 0
    /\ Len(call.payoff) = MaxLen
    /\ AllPositive
    /\ call.payoff[1] > call.payoff[2]
    /\ call.payoff[2] < call.payoff[3]
    /\ ret.value.points = <<>>

(* the payoff changes strict sign between i and i+1 and nowhere else *)
OnlyCrossingAt(i) ==
    /\ i \in Segments(call.payoff)
    /\ call.payoff[i] * call.payoff[i + 1] < 0
    /\ \A j \in Segments(call.payoff) \ {i} : call.payoff[j] * call.payoff[j + 1] > 0

Jump(i) == Abs(call.payoff[i + 1] - call.payoff[i])

(* |v - root| * Jump(i), root = spot[i] + |payoff[i]| / Jump(i) * (spot[i+1] - spot[i]) *)
Distance(v, i) ==
    Abs(v * Jump(i)
          - (call.spot_prices[i] * Jump(i)
               + Abs(call.payoff[i]) * (call.spot_prices[i + 1] - call.spot_prices[i])))

IndicesInRange ==
    \A i \in Segments(call.payoff) :
        /\ {i, i + 1} \subseteq DOMAIN call.payoff
        /\ {i, i + 1} \subseteq DOMAIN call.spot_prices

(* the call evaluated a ratio with denominator 0 *)
ZeroDivision == ret.value.raised \/ ret.value.nans > 0

(* C9 as claimed: for vectors of equal length, lengths 0 and 1 included, and *)
(* every tolerance, no index is out of range and no division has a zero      *)
(* denominator.                                                              *)
C9_TotalAnyTolerance ==
    Returned(FB) => IndicesInRange /\ ~ZeroDivision

(* C9 amended: the same for every tolerance >= 0; a negative tolerance lets  *)
(* a pair of two zero payoffs through the guard, and the ratio is 0 / 0.     *)
C9_TotalNonNegativeTolerance ==
    Returned(FB) /\ call.tolerance >= 0 =>
        /\ IndicesInRange
        /\ ~ZeroDivision
        /\ \A i \in Interpolated(Given(call.payoff), call.tolerance) :
              RatioDen(Given(call.payoff), i) # 0

C9_Witness ==
    /\ Returned(FB)
    /\ call.tolerance = 0
    /\ Len(call.payoff) = MaxLen
    /\ call.payoff[1] = 0
    /\ call.payoff[2] = 0
    /\ call.payoff[3] # 0
    /\ ~ZeroDivision
    /\ ret.value.points # <<>>

(* the pairs of the call at which the loop body can reach the division *)
Hit == Interpolated(Given(call.payoff), call.tolerance)

(* the unrounded breakeven price of pair i lies in [spot[i], spot[i+1]] *)
InsideSegment(i) ==
    LET x == breakeven_price(Given(call.payoff), call.spot_prices, i)
    IN  /\ RatioDen(Given(call.payoff), i) > 0
        /\ RatioNum(Given(call.payoff), i) <= RatioDen(Given(call.payoff), i)
        /\ call.spot_prices[i] <= x.whole
        /\ \/ x.whole < call.spot_prices[i + 1]
           \/ x.whole = call.spot_prices[i + 1] /\ x.num = 0

(* no two places of the returned list hold the same value *)
NoValueTwice ==
    \A j, k \in DOMAIN ret.value.points :
        j # k => ret.value.points[j] # ret.value.points[k]

(* C10 as claimed, at the default tolerance: every returned value is,       *)
(* before rounding, inside the segment of a pair at which the sign test      *)
(* holds, the ratio being between 0 and 1; no reported value lies outside    *)
(* [spot[first], spot[last]]; no value is reported twice.                    *)
C10_InsideGridRange ==
    Returned(FB) /\ call.tolerance = DefaultTolerance =>
        /\ ~ZeroDivision
        /\ \A i \in Hit : InsideSegment(i)
        /\ \A v \in ReturnedPoints :
              /\ call.spot_prices[1] <= v
              /\ v <= call.spot_prices[Len(call.spot_prices)]
        /\ NoValueTwice

(* C10 amended: for a tolerance >= 0 every returned value is, before         *)
(* rounding, inside the segment of such a pair, and the reported (rounded)   *)
(* value is within half a cent of that segment, hence of the grid range; it  *)
(* is inside the grid range when the grid's two ends are whole cents; the    *)
(* returned list holds no value twice.                                       *)
C10_InsideSegmentBeforeRounding ==
    Returned(FB) /\ call.tolerance >= 0 =>
        /\ ~ZeroDivision
        /\ \A i \in Hit : InsideSegment(i)
        /\ \A v \in ReturnedPoints :
              /\ \E i \in Hit :
                    /\ 2 * (call.spot_prices[i] - v) <= Cent
                    /\ 2 * (v - call.spot_prices[i + 1]) <= Cent
              /\ call.spot_prices[1] % Cent = 0 => call.spot_prices[1] <= v
              /\ call.spot_prices[Len(call.spot_prices)] % Cent = 0 =>
                    v <= call.spot_prices[Len(call.spot_prices)]
        /\ NoValueTwice

(* a grid that starts at the whole cent 0.01; the payoff is 0 at the second  *)
(* point, 0.015, so both pairs interpolate to that point; both round it     *)
(* down to the first point and the same value is appended twice              *)
C10_Witness ==
    /\ Returned(FB)
    /\ call.tolerance = 0
    /\ Len(call.payoff) = MaxLen
    /\ call.spot_prices[1] = Cent
    /\ call.spot_prices[2] = Cent + Tick
    /\ call.payoff[1] < 0
    /\ call.payoff[2] = 0
    /\ call.payoff[3] > 0
    /\ Cardinality(Hit) = 2
    /\ Len(ret.value.points) = 1
    /\ ret.value.points[1] = call.spot_prices[1]

-----------------------------------------------------------------------------
(* C8: the Iron Condor pipeline over the fixed grid *)

PageCredit ==
    inputs.sell_put_premium - inputs.buy_put_premium
        + inputs.sell_call_premium - inputs.buy_call_premium

(* the grid of both handlers, in units *)
Grid == linspace(GridStart * HalfCentsPerUnit, GridStop * HalfCentsPerUnit, GridNum)

(* validated, strictly increasing strikes inside the grid, 0 < credit < both widths *)
CondorWithCredit ==
    /\ strategy = "Iron Condor"
    /\ screen.computed
    /\ Grid[1] <= inputs.buy_put_strike
    /\ inputs.buy_put_strike < inputs.sell_put_strike
    /\ inputs.sell_put_strike < inputs.sell_call_strike
    /\ inputs.sell_call_strike < inputs.buy_call_strike
    /\ inputs.buy_call_strike <= Grid[GridNum]
    /\ 0 < PageCredit
    /\ PageCredit < inputs.sell_put_strike - inputs.buy_put_strike
    /\ PageCredit < inputs.buy_call_strike - inputs.sell_call_strike

(* the two prices at which the payoff function itself is zero *)
PutRoot == inputs.sell_put_strike - PageCredit
CallRoot == inputs.sell_call_strike + PageCredit

(* the grid intervals [Grid[i], Grid[i+1]] that contain the price r *)
Around(r) == {i \in 1..(GridNum - 1) : Grid[i] <= r /\ r <= Grid[i + 1]}

(* v is, up to the rounding to a cent, inside a grid interval that contains r *)
NearRoot(v, r) ==
    \E i \in Around(r) :
        /\ 2 * (Grid[i] - v) <= Cent
        /\ 2 * (v - Grid[i + 1]) <= Cent

(* the payoff differs by more than the tolerance across every grid interval *)
(* that contains r                                                          *)
SteepAround(r) ==
    \A i \in Around(r) : Abs(screen.payoff[i + 1] - screen.payoff[i]) > DefaultTolerance

(* some grid point lies between the two roots, the roots included *)
GridPointBetweenRoots == \E k \in 1..GridNum : PutRoot <= Grid[k] /\ Grid[k] <= CallRoot

(* the values the page lists as breakeven points *)
ScreenPoints == {screen.breakeven_points[k] : k \in DOMAIN screen.breakeven_points}

(* C8 as claimed: the page reports exactly two breakeven points, one         *)
(* strictly between buyPutStrike and sellPutStrike and one strictly between  *)
(* sellCallStrike and buyCallStrike, wherever the strikes lie relative to    *)
(* the grid points.                                                          *)
C8_TwoBreakevensAnywhere ==
    CondorWithCredit =>
        /\ Len(screen.breakeven_points) = 2
        /\ \E v \in ScreenPoints :
              inputs.buy_put_strike < v /\ v < inputs.sell_put_strike
        /\ \E v \in ScreenPoints :
              inputs.sell_call_strike < v /\ v < inputs.buy_call_strike

(* C8 amended: the page reports at most two breakeven points, each of them,  *)
(* up to the rounding to 2 decimals, inside a grid interval that contains    *)
(* sellPutStrike - credit or sellCallStrike + credit; when some grid point   *)
(* lies between these two prices and the payoff differs by more than the     *)
(* tolerance across the grid intervals containing them, one point is         *)
(* reported for each of the two; when no grid point lies between the two     *)
(* prices nothing is reported.                                               *)
C8_BreakevensWithinGridInterval ==
    CondorWithCredit =>
        /\ Len(screen.breakeven_points) <= 2
        /\ \A v \in ScreenPoints : NearRoot(v, PutRoot) \/ NearRoot(v, CallRoot)
        /\ GridPointBetweenRoots /\ SteepAround(PutRoot) /\ SteepAround(CallRoot) =>
              /\ \E v \in ScreenPoints : NearRoot(v, PutRoot)
              /\ \E v \in ScreenPoints : NearRoot(v, CallRoot)
        /\ ~GridPointBetweenRoots => screen.breakeven_points = <<>>

C8_Witness ==
    /\ CondorWithCredit
    /\ inputs = CondorDefaults
    /\ lot_size = MaxLot
    /\ GridPointBetweenRoots /\ SteepAround(PutRoot) /\ SteepAround(CallRoot)
    /\ Len(screen.breakeven_points) = 2
    /\ 9400 * Cent \in ScreenPoints
    /\ 11602 * Cent \in ScreenPoints
    /\ screen.max_profit = PageCredit * lot_size
    /\ screen.max_loss < 0

====
